---- MODULE Spec2Model ----
(***************************************************************************)
(* phoenix-cli: the uncollected-revenue report                             *)
(* (src/lib/processor/process_get_uncollected_revenue.rs) and the market   *)
(* event log (src/helpers/print_helpers.rs).                               *)
(*                                                                         *)
(* The revenue report accumulates in IEEE-754 binary32 (Rust f32).  An f32 *)
(* is modelled as <<m, e>> with value m * 2^e and 2^23 <= m < 2^24, or     *)
(* <<0, 0>> for zero; every operation rounds to nearest, ties to even, as  *)
(* the hardware does.  All amounts of the report are non-negative and far  *)
(* from the subnormal and overflow ranges, so sign, subnormals and         *)
(* infinities are not modelled.                                            *)
(***************************************************************************)
EXTENDS Integers, Sequences, FiniteSets, TLC

\* ------------------------------------------------------------------ f32

Pow2(n) == IF n <= 0 THEN 1 ELSE 2 ^ n

Zero32 == <<0, 0>>

\* The f32 whose value is m * 2^e exactly, for 0 <= m < 2^24.
RECURSIVE Normalize(_, _)
Normalize(m, e) ==
    IF m = 0 THEN Zero32
    ELSE IF m >= 8388608 THEN <<m, e>>
    ELSE Normalize(2 * m, e - 1)

\* Round (n + f) * 2^e to f32, where 0 <= f < 1 and sticky <=> f > 0:
\* bits shifted out are folded into sticky, the last one is the round bit.
RECURSIVE RoundF32(_, _, _)
RoundF32(n, sticky, e) ==
    IF n < 16777216 THEN Normalize(n, e)
    ELSE IF n >= 33554432
         THEN RoundF32(n \div 2, sticky \/ (n % 2 = 1), e + 1)
    ELSE LET q  == n \div 2
             up == (n % 2 = 1) /\ (sticky \/ (q % 2 = 1))
             r  == IF up THEN q + 1 ELSE q
         IN  IF r = 16777216 THEN <<8388608, e + 2>> ELSE <<r, e + 1>>

\* `x as f32` for an unsigned integer x (here x < 2^31).
U64ToF32(x) == RoundF32(x, FALSE, 0)

\* a + b
F32Add(a, b) ==
    IF a[1] = 0 THEN b
    ELSE IF b[1] = 0 THEN a
    ELSE LET hi  == IF a[2] >= b[2] THEN a ELSE b
             lo  == IF a[2] >= b[2] THEN b ELSE a
             d   == hi[2] - lo[2]
             big == hi[1] * 8
             sml == IF d >= 28 THEN 0 ELSE (lo[1] * 8) \div Pow2(d)
             stk == IF d >= 28 THEN TRUE ELSE (lo[1] * 8) % Pow2(d) # 0
         IN  RoundF32(big + sml, stk, hi[2] - 3)

\* a * b: the 48-bit product from 12-bit limbs, hi * 2^24 + lo.
F32Mul(a, b) ==
    IF a[1] = 0 \/ b[1] = 0 THEN Zero32
    ELSE LET a1  == a[1] \div 4096
             a0  == a[1] % 4096
             b1  == b[1] \div 4096
             b0  == b[1] % 4096
             mid == a1 * b0 + a0 * b1
             low == a0 * b0 + (mid % 4096) * 4096
             lo  == low % 16777216
             hi  == a1 * b1 + (mid \div 4096) + (low \div 16777216)
         IN  RoundF32(hi * 4 + (lo \div 4194304), lo % 4194304 # 0,
                      a[2] + b[2] + 22)

\* n more quotient bits of r / d by long division: <<quotient, remainder>>.
RECURSIVE LongDiv(_, _, _, _)
LongDiv(q, r, d, n) ==
    IF n = 0 THEN <<q, r>>
    ELSE IF 2 * r >= d THEN LongDiv(2 * q + 1, 2 * r - d, d, n - 1)
    ELSE LongDiv(2 * q, 2 * r, d, n - 1)

\* a / b for b # 0
F32Div(a, b) ==
    IF a[1] = 0 THEN Zero32
    ELSE LET qr == LongDiv(a[1] \div b[1], a[1] % b[1], b[1], 26)
         IN  RoundF32(qr[1], qr[2] # 0, a[2] - b[2] - 26)

\* 10f32.powi(d): 10^d = 5^d * 2^d is exact in f32 for d <= 10.
F32Pow10(d) == Normalize(5 ^ d, d)

\* ------------------------------------------------- the revenue report

\* Bounds of the model.
MaxMarkets == 2

\* The quote symbols get_base_and_quote_symbols can hand back for a market:
\* a ticker of the config's token list, or nothing ("none", the Option's
\* None) when the quote mint is not in that list.
QuoteSymbols == {"USDC", "USDT", "SOL", "ETH", "none"}

\* The arms of the match that accumulate.
SupportedSymbols == {"USDC", "USDT", "SOL"}

\* market_metadata.quote_decimals of the market's quote mint.
QuoteDecimals(symbol) ==
    CASE symbol = "SOL" -> 9
      [] symbol = "ETH" -> 8
      [] OTHER -> 6

\* Raw uncollected fees (quote atoms): one that f32 holds exactly and one
\* above 2^24 that it does not.
Fees == {100, 67108868}

\* How resolving one market ends: "ok", or the `?` that returns: the key does
\* not parse (line 38), the SDK or the RPC client fails to fetch (add_market,
\* get_market_metadata, get_account_data, lines 39-42), the header bytes do
\* not decode (44-45), the market bytes do not (47-48).
LoadOutcomes == {"ok", "bad_key", "fetch", "header", "dispatch"}

\* What the ledger holds for one market of the config, as the run reads it.
\* The fee of a market is read only when its symbol is a supported one.
MarketStates ==
    [load : LoadOutcomes \ {"ok"}, symbol : {"none"}, fee : {0},
     quote_decimals : {6}]
    \cup {[load |-> "ok", symbol |-> s, fee |-> f,
           quote_decimals |-> QuoteDecimals(s)] :
             s \in SupportedSymbols, f \in Fees}
    \cup {[load |-> "ok", symbol |-> s, fee |-> 100,
           quote_decimals |-> QuoteDecimals(s)] :
             s \in QuoteSymbols \ SupportedSymbols}

\* config.markets: the market keys, in the config's order.
MarketKey(i) == <<"m1", "m2", "m3", "m4", "m5">>[i]

\* The spot service's answers to one request: no connection, a body with no
\* data.amount string, or an amount, given as <<digits, scale>> for the
\* decimal digits * 10^-scale.
OracleResponses ==
    {[kind |-> "down", amount |-> <<0, 0>>],
     [kind |-> "no_amount", amount |-> <<0, 0>>],
     [kind |-> "price", amount |-> <<10002, 4>>],
     [kind |-> "price", amount |-> <<150, 0>>]}

NoResponse == [kind |-> "none", amount |-> <<0, 0>>]

\* str::parse::<f32> of a decimal string digits * 10^-scale (digits < 2^24,
\* scale <= 10): the nearest f32, which is the correctly rounded quotient of
\* the two exactly representable operands.
ParseF32(amount) == F32Div(U64ToF32(amount[1]), F32Pow10(amount[2]))

Running == [status |-> "running", msg |-> <<>>]
Ok == [status |-> "ok", msg |-> <<>>]
Err(msg) == [status |-> "err", msg |-> msg]
Panic(msg) == [status |-> "panic", msg |-> msg]

\* get_price: Ok(price) as [status, msg, val], or the error or panic.
get_price(resp) ==
    CASE resp.kind = "down" ->
           [status |-> "err",
            msg |-> <<"Failed to get price data, looks like Coinbase is down..">>,
            val |-> Zero32]
      [] resp.kind = "no_amount" ->
           [status |-> "panic",
            msg |-> <<"called Option::unwrap() on a None value">>,
            val |-> Zero32]
      [] OTHER ->
           [status |-> "ok", msg |-> <<>>, val |-> ParseF32(resp.amount)]

\* The error of a market that fails to resolve.  The header and dispatch
\* texts are the source's; ParsePubkeyError is solana_sdk's; the texts of the
\* SDK and RPC client errors are not in the source and are modelled as naming
\* the market.
LoadError(load, key) ==
    CASE load = "bad_key" -> <<"ParsePubkeyError">>
      [] load = "header" -> <<"Error getting market header. Error: ">>
      [] load = "dispatch" -> <<"Failed to load market. Error ">>
      [] OTHER -> <<load, key>>

UnsupportedError(key, symbol) ==
    <<"The ", key, " market is using an unsupported quote token: ", symbol, ".">>

ZeroTotals ==
    [usdc |-> Zero32, usdt |-> Zero32, sol |-> Zero32, total |-> Zero32]

\* The accumulators keep what an earlier run left in them.
InitialTotalsKept(stale) == stale

\* let mut total_usdc = 0f32; ... let mut total = 0f32; whatever was there
\* before (stale) is gone.
InitialTotals(stale) == ZeroTotals

\* amt = fee as f32 / 10f32.powi(quote_decimals)
DecimalAmount(fee, decimals) == F32Div(U64ToF32(fee), F32Pow10(decimals))

\* The match on the quote symbol, for a supported symbol.
Accumulated(t, symbol, amt, usdt, sol) ==
    CASE symbol = "USDC" ->
           [t EXCEPT !.usdc = F32Add(@, amt), !.total = F32Add(@, amt)]
      [] symbol = "USDT" ->
           [t EXCEPT !.usdt = F32Add(@, amt),
                     !.total = F32Add(@, F32Mul(usdt, amt))]
      [] symbol = "SOL" ->
           [t EXCEPT !.sol = F32Add(@, amt),
                     !.total = F32Add(@, F32Mul(sol, amt))]

Line(text, val) == [text |-> text, val |-> val]

\* The four println! of the report.  {} of an f32 prints the shortest decimal
\* that parses back to the same f32, so a line is kept as its label and the
\* f32 printed.
TotalLines(t) ==
    <<Line("USDC: ", t.usdc), Line("USDT: ", t.usdt), Line("SOL: ", t.sol),
      Line("Total (USDC): ", t.total)>>

TotalLabels == {"USDC: ", "USDT: ", "SOL: ", "Total (USDC): "}

VARIABLES
    markets,    \* the ledger's state of each market of config.markets
    pc,         \* where the run is
    run,        \* 1 for the first invocation, 2 for the second
    i,          \* the market the loop is at
    usdtprice, solprice,
    totals,     \* total_usdc, total_usdt, total_sol, total
    stdout,     \* the lines printed by this run
    result,     \* what the run returned
    oracle,     \* history: the spot service's answer per symbol, this run
    requests,   \* history: the get_price calls of this run
    loaded,     \* history: the markets the loop started to resolve, in order
    first,      \* history: the outcome of the first invocation
    market_events,      \* log_market_events: the events handed in
    active_market_key,  \* sdk.active_market_key
    ev,                 \* the event the for loop is at
    printed,            \* the lines log_market_events printed
    printed_by          \* history: the event that printed each line

revenue_vars ==
    <<markets, pc, run, i, usdtprice, solprice, totals, stdout, result, oracle,
      requests, loaded, first>>

log_vars == <<market_events, active_market_key, ev, printed, printed_by>>

vars == <<revenue_vars, log_vars>>

SeqsUpTo(S, n) == UNION {[1..k -> S] : k \in 0..n}

NoOracle == [s \in {"USDT", "SOL"} |-> NoResponse]

NoFirst == [result |-> Running, stdout |-> <<>>, oracle |-> NoOracle]

\* The state once config.markets is read and the SDK client is built.
Init ==
    /\ markets \in SeqsUpTo(MarketStates, MaxMarkets)
    /\ pc = "usdt_price"
    /\ run = 1
    /\ i = 1
    /\ usdtprice = Zero32
    /\ solprice = Zero32
    /\ totals = ZeroTotals
    /\ stdout = <<>>
    /\ result = Running
    /\ oracle = NoOracle
    /\ requests = <<>>
    /\ loaded = <<>>
    /\ first = NoFirst
    /\ market_events = <<>>
    /\ active_market_key = "mktA"
    /\ ev = 1
    /\ printed = <<>>
    /\ printed_by = <<>>

\* A get_price call, with the number of markets the loop has been through
\* when it is made.
Request(symbol) == [symbol |-> symbol, loaded |-> Len(loaded)]

\* let usdtprice = get_price("USDT", "USDC").await?;
GetUsdtPrice ==
    /\ pc = "usdt_price"
    /\ \E resp \in OracleResponses :
         LET r == get_price(resp) IN
         /\ oracle' = [oracle EXCEPT !["USDT"] = resp]
         /\ requests' = Append(requests, Request("USDT"))
         /\ IF r.status = "ok"
            THEN /\ usdtprice' = r.val
                 /\ pc' = "sol_price"
                 /\ result' = result
            ELSE /\ usdtprice' = usdtprice
                 /\ pc' = "done"
                 /\ result' = [status |-> r.status, msg |-> r.msg]
    /\ UNCHANGED <<markets, run, i, solprice, totals, stdout, loaded, first>>
    /\ UNCHANGED log_vars

\* let solprice = get_price("SOL", "USDC").await?; then the banner and the
\* four accumulators.
GetSolPrice ==
    /\ pc = "sol_price"
    /\ \E resp \in OracleResponses :
         LET r == get_price(resp) IN
         /\ oracle' = [oracle EXCEPT !["SOL"] = resp]
         /\ requests' = Append(requests, Request("SOL"))
         /\ IF r.status = "ok"
            THEN /\ solprice' = r.val
                 /\ pc' = "loop"
                 /\ result' = result
                 /\ stdout' = Append(stdout,
                                     Line("Retrieving current balances...", Zero32))
                 /\ totals' = InitialTotals(totals)
            ELSE /\ solprice' = solprice
                 /\ pc' = "done"
                 /\ result' = [status |-> r.status, msg |-> r.msg]
                 /\ UNCHANGED <<stdout, totals>>
    /\ UNCHANGED <<markets, run, i, usdtprice, loaded, first>>
    /\ UNCHANGED log_vars

AtMarket == pc = "loop" /\ i <= Len(markets)

\* One of the `?` of lines 38-48 returns the error.
LoadMarketFails ==
    /\ AtMarket
    /\ markets[i].load # "ok"
    /\ loaded' = Append(loaded, i)
    /\ result' = Err(LoadError(markets[i].load, MarketKey(i)))
    /\ pc' = "done"
    /\ UNCHANGED <<markets, run, i, usdtprice, solprice, totals, stdout, oracle,
                   requests, first>>
    /\ UNCHANGED log_vars

\* quote_mint_symbol.unwrap() on None.
SymbolUnresolved ==
    /\ AtMarket
    /\ markets[i].load = "ok"
    /\ markets[i].symbol = "none"
    /\ loaded' = Append(loaded, i)
    /\ result' = Panic(<<"called Option::unwrap() on a None value">>)
    /\ pc' = "done"
    /\ UNCHANGED <<markets, run, i, usdtprice, solprice, totals, stdout, oracle,
                   requests, first>>
    /\ UNCHANGED log_vars

\* The arms "USDC", "USDT" and "SOL" of the match.
Accumulate ==
    /\ AtMarket
    /\ markets[i].load = "ok"
    /\ markets[i].symbol \in SupportedSymbols
    /\ loaded' = Append(loaded, i)
    /\ totals' = Accumulated(totals, markets[i].symbol,
                             DecimalAmount(markets[i].fee,
                                           markets[i].quote_decimals),
                             usdtprice, solprice)
    /\ i' = i + 1
    /\ UNCHANGED <<markets, pc, run, usdtprice, solprice, stdout, result, oracle,
                   requests, first>>
    /\ UNCHANGED log_vars

\* The arm _ of the match.
UnsupportedQuote ==
    /\ AtMarket
    /\ markets[i].load = "ok"
    /\ markets[i].symbol \notin SupportedSymbols \cup {"none"}
    /\ loaded' = Append(loaded, i)
    /\ result' = Err(UnsupportedError(MarketKey(i), markets[i].symbol))
    /\ pc' = "done"
    /\ UNCHANGED <<markets, run, i, usdtprice, solprice, totals, stdout, oracle,
                   requests, first>>
    /\ UNCHANGED log_vars

\* After the loop: the four totals and Ok(()).
PrintTotals ==
    /\ pc = "loop"
    /\ i > Len(markets)
    /\ stdout' = stdout \o TotalLines(totals)
    /\ result' = Ok
    /\ pc' = "done"
    /\ UNCHANGED <<markets, run, i, usdtprice, solprice, totals, oracle,
                   requests, loaded, first>>
    /\ UNCHANGED log_vars

\* The command is invoked again on the same ledger: a new process, whose
\* locals hold nothing until their `let` runs.
RunAgain ==
    /\ pc = "done"
    /\ run = 1
    /\ first' = [result |-> result, stdout |-> stdout, oracle |-> oracle]
    /\ run' = 2
    /\ pc' = "usdt_price"
    /\ i' = 1
    /\ result' = Running
    /\ stdout' = <<>>
    /\ oracle' = NoOracle
    /\ requests' = <<>>
    /\ loaded' = <<>>
    /\ UNCHANGED <<markets, usdtprice, solprice, totals>>
    /\ UNCHANGED log_vars

Next ==
    \/ GetUsdtPrice
    \/ GetSolPrice
    \/ LoadMarketFails
    \/ SymbolUnresolved
    \/ Accumulate
    \/ UnsupportedQuote
    \/ PrintTotals
    \/ RunAgain

Spec == Init /\ [][Next]_vars

\* ------------------------------------------------ the market event log

MaxEvents == 3

MarketKeys == {"mktA", "mktB"}

\* The variants of MarketEventDetails: the four log_market_events matches on
\* and one of those left to the arm _ .
EventKinds == {"Fill", "Place", "Reduce", "FillSummary", "Evict"}

\* A PhoenixEvent of a transaction, with the fields of its details.
PhoenixEvent(market, kind, index) ==
    [market |-> market, kind |-> kind, timestamp |-> 1700000000,
     signature |-> "5sig", slot |-> 250000, sequence_number |-> 42,
     event_index |-> index, maker |-> "maker1", taker |-> "taker1",
     price_in_ticks |-> 2500, base_lots |-> 40, side_filled |-> "Bid",
     order_sequence_number_is_bid |-> (index % 2 = 1),
     total_quote_fees |-> 12]

\* format!("{}: {}", a, b), as the pieces of the string
Format(a, b) == <<a, ": ", b>>

\* schema.iter().zip(values.iter()): as long as the shorter of the two
Zip(a, b) ==
    [k \in 1..(IF Len(a) <= Len(b) THEN Len(a) ELSE Len(b)) |-> Format(a[k], b[k])]

\* parts.join(sep), as the pieces of the string
RECURSIVE Join(_, _)
Join(parts, sep) ==
    IF parts = <<>> THEN <<>>
    ELSE IF Len(parts) = 1 THEN parts[1]
    ELSE parts[1] \o <<sep>> \o Join(Tail(parts), sep)

base_schema ==
    <<"market", "event_type", "timestamp", "signature", "slot",
      "sequence_number", "event_index">>

event_schema == <<"maker", "taker", "price", "side", "quantity">>

initialize_log(event, event_type) ==
    Zip(base_schema,
        <<event.market, event_type, ToString(event.timestamp), event.signature,
          ToString(event.slot), ToString(event.sequence_number),
          ToString(event.event_index)>>)

\* The event schema without its taker column: zip then drops the last value.
finalize_log_short(log, data) ==
    Join(log \o Zip(<<"maker", "price", "side", "quantity">>, data), ", ")

finalize_log(log, data) == Join(log \o Zip(event_schema, data), ", ")

\* Side::from_order_sequence_number, {:?}
SideOf(event) == IF event.order_sequence_number_is_bid THEN "Bid" ELSE "Ask"

\* The price and quantity columns: the SDK's ticks_to_float_price and
\* get_decimal_string of base_lots_to_base_amount, which are not in the
\* source; the text printed is kept as the number converted.
PriceText(event) == ToString(event.price_in_ticks)
QuantityText(event) == ToString(event.base_lots)

fill_data(event) ==
    <<event.maker, event.taker, PriceText(event), event.side_filled,
      QuantityText(event)>>

place_data(event) ==
    <<event.maker, "", PriceText(event), SideOf(event), QuantityText(event)>>

reduce_data(event) ==
    <<event.maker, "", PriceText(event), SideOf(event), QuantityText(event)>>

fee_line(event) ==
    <<"Total quote token fees paid: ", ToString(event.total_quote_fees)>>

\* log_market_events is called with the events of a transaction.
InitLog ==
    /\ market_events \in
         UNION {[1..n -> MarketKeys \X EventKinds] : n \in 0..MaxEvents}
    /\ active_market_key \in MarketKeys
    /\ ev = 1
    /\ printed = <<>>
    /\ printed_by = <<>>
    /\ markets = <<>>
    /\ pc = "log"
    /\ run = 1
    /\ i = 1
    /\ usdtprice = Zero32
    /\ solprice = Zero32
    /\ totals = ZeroTotals
    /\ stdout = <<>>
    /\ result = Running
    /\ oracle = NoOracle
    /\ requests = <<>>
    /\ loaded = <<>>
    /\ first = NoFirst

EventAt(n) == PhoenixEvent(market_events[n][1], market_events[n][2], n)

AtEvent(kind) == pc = "log" /\ ev <= Len(market_events) /\ EventAt(ev).kind = kind

Println(line) ==
    /\ printed' = Append(printed, line)
    /\ printed_by' = Append(printed_by, ev)

\* The arms Fill, Place and Reduce: continue unless the event is of the
\* active market, else print the line.
LogFill ==
    /\ AtEvent("Fill")
    /\ IF EventAt(ev).market # active_market_key
       THEN UNCHANGED <<printed, printed_by>>
       ELSE Println(finalize_log(initialize_log(EventAt(ev), "Fill"),
                                 fill_data(EventAt(ev))))
    /\ ev' = ev + 1
    /\ UNCHANGED <<market_events, active_market_key, revenue_vars>>

LogPlace ==
    /\ AtEvent("Place")
    /\ IF EventAt(ev).market # active_market_key
       THEN UNCHANGED <<printed, printed_by>>
       ELSE Println(finalize_log(initialize_log(EventAt(ev), "Place"),
                                 place_data(EventAt(ev))))
    /\ ev' = ev + 1
    /\ UNCHANGED <<market_events, active_market_key, revenue_vars>>

LogReduce ==
    /\ AtEvent("Reduce")
    /\ IF EventAt(ev).market # active_market_key
       THEN UNCHANGED <<printed, printed_by>>
       ELSE Println(finalize_log(initialize_log(EventAt(ev), "Reduce"),
                                 reduce_data(EventAt(ev))))
    /\ ev' = ev + 1
    /\ UNCHANGED <<market_events, active_market_key, revenue_vars>>

\* The arm FillSummary: prints the fees, whatever the event's market.
LogFillSummary ==
    /\ AtEvent("FillSummary")
    /\ Println(fee_line(EventAt(ev)))
    /\ ev' = ev + 1
    /\ UNCHANGED <<market_events, active_market_key, revenue_vars>>

\* The arm _ : continue.
LogOther ==
    /\ pc = "log"
    /\ ev <= Len(market_events)
    /\ EventAt(ev).kind \notin {"Fill", "Place", "Reduce", "FillSummary"}
    /\ ev' = ev + 1
    /\ UNCHANGED <<market_events, active_market_key, printed, printed_by,
                   revenue_vars>>

NextLog ==
    \/ LogFill
    \/ LogPlace
    \/ LogReduce
    \/ LogFillSummary
    \/ LogOther

SpecLog == InitLog /\ [][NextLog]_vars

\* ------------------------------------------- exact arithmetic, for the claims

\* Natural numbers of any size, as little-endian digits in base 2^15.
BNBase == 2 ^ 15

RECURSIVE BNFromInt(_)
BNFromInt(n) == IF n = 0 THEN <<>> ELSE <<n % BNBase>> \o BNFromInt(n \div BNBase)

\* a * k + c, for 0 <= k <= 2^15
RECURSIVE BNMulSmall(_, _, _)
BNMulSmall(a, k, c) ==
    IF a = <<>> THEN BNFromInt(c)
    ELSE LET t == Head(a) * k + c
         IN  <<t % BNBase>> \o BNMulSmall(Tail(a), k, t \div BNBase)

\* a + b + c
RECURSIVE BNAdd(_, _, _)
BNAdd(a, b, c) ==
    IF a = <<>> /\ b = <<>> THEN BNFromInt(c)
    ELSE LET x == IF a = <<>> THEN 0 ELSE Head(a)
             y == IF b = <<>> THEN 0 ELSE Head(b)
             t == x + y + c
         IN  <<t % BNBase>>
             \o BNAdd(IF a = <<>> THEN a ELSE Tail(a),
                      IF b = <<>> THEN b ELSE Tail(b), t \div BNBase)

\* a * k^n
RECURSIVE BNMulPow(_, _, _)
BNMulPow(a, k, n) ==
    IF n <= 0 THEN a ELSE BNMulPow(BNMulSmall(a, k, 0), k, n - 1)

\* a * n, for 0 <= n < 2^24
BNMulInt(a, n) ==
    BNAdd(BNMulSmall(BNMulSmall(a, n \div 4096, 0), 4096, 0),
          BNMulSmall(a, n % 4096, 0), 0)

\* -1, 0 or 1 as a < b, a = b, a > b
RECURSIVE BNCmp(_, _)
BNCmp(a, b) ==
    IF a = <<>> /\ b = <<>> THEN 0
    ELSE LET x == IF a = <<>> THEN 0 ELSE Head(a)
             y == IF b = <<>> THEN 0 ELSE Head(b)
             c == BNCmp(IF a = <<>> THEN a ELSE Tail(a),
                        IF b = <<>> THEN b ELSE Tail(b))
         IN  IF c # 0 THEN c ELSE IF x < y THEN -1 ELSE IF x > y THEN 1 ELSE 0

\* Dyadic rationals <<n, e>>, of value n * 2^e: the exact value of an f32,
\* and exact sums and products of such values.
Dy(x) == <<BNFromInt(x[1]), x[2]>>
DyInt(n) == <<n, 0>>
DyAlign(a, e) == BNMulPow(a[1], 2, a[2] - e)
DyMin(a, b) == IF a[2] <= b[2] THEN a[2] ELSE b[2]
DyAdd(a, b) == <<BNAdd(DyAlign(a, DyMin(a, b)), DyAlign(b, DyMin(a, b)), 0), DyMin(a, b)>>
DyMul(x, y) == <<BNMulInt(BNFromInt(x[1]), y[1]), x[2] + y[2]>>
DyCmp(a, b) == BNCmp(DyAlign(a, DyMin(a, b)), DyAlign(b, DyMin(a, b)))
DyTimesPow10(a, k) == <<BNMulPow(a[1], 10, k), a[2]>>

\* The total of one currency as the run holds it.
TotalOf(c) ==
    CASE c = "USDC" -> totals.usdc
      [] c = "USDT" -> totals.usdt
      [] c = "SOL" -> totals.sol

\* The exact sum, times 10^9, of fee / 10^quote_decimals over the markets
\* 1..n quoted in c.
RECURSIVE FeeSumE9(_, _)
FeeSumE9(c, n) ==
    IF n = 0 THEN <<>>
    ELSE IF markets[n].load = "ok" /\ markets[n].symbol = c
         THEN BNAdd(FeeSumE9(c, n - 1),
                    BNMulPow(BNFromInt(markets[n].fee), 10,
                             9 - markets[n].quote_decimals), 0)
    ELSE FeeSumE9(c, n - 1)

Range(s) == {s[k] : k \in DOMAIN s}
Last(s) == s[Len(s)]
Failed(resp) == resp.kind \in {"down", "no_amount"}
Finished == pc = "done"
Reported == pc = "done" /\ result.status = "ok"
PrintedTotals == \E k \in DOMAIN stdout : stdout[k].text \in TotalLabels
\* The markets accumulated so far, where the totals are those of this run.
Processed == IF pc = "loop" \/ Reported THEN i - 1 ELSE 0
TotalsLive == pc = "loop" \/ Reported

\* ------------------------------------------------------------- the claims

\* The list's exact total of currency c is zero.
ListTotalZero(c) == FeeSumE9(c, Len(markets)) = <<>>
\* Nothing but the price of c can fail the run.
OnlyPriceCanFail(c) ==
    /\ \A j \in DOMAIN markets :
         markets[j].load = "ok" /\ markets[j].symbol \in SupportedSymbols
    /\ \A d \in {"USDT", "SOL"} \ {c} : ~Failed(oracle[d])

\* C1: a failing price request for USDT or SOL fails the run only if that
\* currency's total over the market list is non-zero: with a zero total the
\* run still succeeds and prints the report; with a non-zero total it fails.
C1_PriceFailureFailsOnlyNonZeroTotal ==
    Finished =>
      \A c \in {"USDT", "SOL"} :
        Failed(oracle[c]) =>
          /\ (ListTotalZero(c) /\ OnlyPriceCanFail(c)) =>
               (result.status = "ok" /\ PrintedTotals)
          /\ ~ListTotalZero(c) => result.status # "ok"

\* C2: when the loop reaches a market whose quote symbol is not USDC, USDT or
\* SOL (a symbol the resolver could not resolve included), the run returns an
\* error naming that market and symbol, does not crash, loads no later market
\* and prints no total.
C2_UnsupportedQuoteReturnsError ==
    (Finished /\ loaded # <<>> /\ markets[Last(loaded)].load = "ok"
       /\ markets[Last(loaded)].symbol \notin SupportedSymbols) =>
      /\ result.status = "err"
      /\ MarketKey(Last(loaded)) \in Range(result.msg)
      /\ markets[Last(loaded)].symbol \in Range(result.msg)
      /\ loaded = [k \in 1..Last(loaded) |-> k]
      /\ ~PrintedTotals

\* C3: when resolving a market fails, the run fails with an error that
\* identifies that market, prints none of the four totals, processes no later
\* market and does not retry.
C3_LoadFailureNamesMarket ==
    (Finished /\ loaded # <<>> /\ markets[Last(loaded)].load # "ok") =>
      /\ result.status = "err"
      /\ MarketKey(Last(loaded)) \in Range(result.msg)
      /\ loaded = [k \in 1..Last(loaded) |-> k]
      /\ ~PrintedTotals

\* C4: after every prefix of the market list, the grand total is exactly
\* total_usdc + total_usdt * usdtprice + total_sol * solprice, and each
\* currency total is exactly the sum of fee / 10^quote_decimals over the
\* processed markets quoted in it.
C4_GrandTotalIsSumOfConvertedTotals ==
    TotalsLive =>
      /\ DyCmp(Dy(totals.total),
               DyAdd(Dy(totals.usdc),
                     DyAdd(DyMul(totals.usdt, usdtprice),
                           DyMul(totals.sol, solprice)))) = 0
      /\ \A c \in SupportedSymbols :
           DyCmp(DyTimesPow10(Dy(TotalOf(c)), 9), DyInt(FeeSumE9(c, Processed))) = 0

\* C5: every price request is issued after the market loop has finished
\* (every market of the list has been through the loop by then), none is for
\* USDC, none is repeated, and a run that reports has requested USDT and SOL.
C5_PricesRequestedAfterLoopOnce ==
    /\ \A k \in DOMAIN requests :
         /\ requests[k].loaded = Len(markets)
         /\ requests[k].symbol \in {"USDT", "SOL"}
         /\ \A j \in DOMAIN requests : requests[j].symbol = requests[k].symbol => j = k
    /\ Reported => {requests[k].symbol : k \in DOMAIN requests} = {"USDT", "SOL"}

\* C6: a run over an empty market list succeeds and reports zero for every
\* total, whatever the price service answers.
C6_EmptyListReportsZero ==
    (Finished /\ markets = <<>>) =>
      /\ result.status = "ok"
      /\ \A k \in DOMAIN stdout :
           stdout[k].text \in TotalLabels => stdout[k].val = Zero32
      /\ PrintedTotals

\* C7 as stated: a second run on the same ledger ends as the first did, with
\* the same result and the same printed totals.
C7_SecondRunIdentical ==
    (Finished /\ run = 2) => (result = first.result /\ stdout = first.stdout)

\* C7, amended: a second run on the same ledger (each market read with the
\* same outcome) that gets the same answers from the price service ends as
\* the first did, with the same result and the same printed totals.
C7_SecondRunIdenticalGivenSamePrices ==
    (Finished /\ run = 2 /\ oracle = first.oracle) =>
      (result = first.result /\ stdout = first.stdout)

\* A second run that accumulated fees and reported, under the same prices.
C7_Witness ==
    /\ Reported
    /\ run = 2
    /\ oracle = first.oracle
    /\ Len(markets) = 2
    /\ totals.total # Zero32

\* C8: each reported currency total differs from the exact sum of
\* fee / 10^quote_decimals by at most one unit of that currency's last
\* decimal place, 10^-quote_decimals.
C8_TotalsWithinOneUnit ==
    Reported =>
      \A c \in SupportedSymbols :
        LET got  == DyTimesPow10(Dy(TotalOf(c)), 9)
            want == DyInt(FeeSumE9(c, Len(markets)))
            unit == DyInt(BNMulPow(<<1>>, 10, 9 - QuoteDecimals(c)))
        IN  /\ DyCmp(got, DyAdd(want, unit)) <= 0
            /\ DyCmp(want, DyAdd(got, unit)) <= 0

\* The names and separators of a printed line that has n fields:
\* name ": " value, joined by ", ".
FieldNames(line) == [k \in 1..((Len(line) + 1) \div 4) |-> line[4 * k - 3]]
FieldValue(line, k) == line[4 * k - 1]
WellJoined(line) ==
    /\ Len(line) % 4 = 3
    /\ \A k \in 1..((Len(line) + 1) \div 4) : line[4 * k - 2] = ": "
    /\ \A k \in 1..((Len(line) - 3) \div 4) : line[4 * k] = ", "

Schema ==
    <<"market", "event_type", "timestamp", "signature", "slot",
      "sequence_number", "event_index", "maker", "taker", "price", "side",
      "quantity">>

FollowsSchema(line) == WellJoined(line) /\ FieldNames(line) = Schema

\* C9 as stated: every line log_market_events prints has the twelve fields
\* market, event_type, timestamp, signature, slot, sequence_number,
\* event_index, maker, taker, price, side, quantity, in that order, each
\* "name: value", joined by ", ".
C9_EveryLineFollowsSchema ==
    \A n \in DOMAIN printed : FollowsSchema(printed[n])

\* C9, amended: every line printed for a Fill, Place or Reduce event has the
\* twelve fields in that order, each "name: value", joined by ", ", with the
\* event's market and kind in the first two; the only other lines are the
\* "Total quote token fees paid: " lines of FillSummary events.
C9_EventLinesFollowSchema ==
    \A n \in DOMAIN printed :
      LET event == EventAt(printed_by[n]) IN
      IF event.kind \in {"Fill", "Place", "Reduce"}
      THEN /\ FollowsSchema(printed[n])
           /\ FieldValue(printed[n], 1) = event.market
           /\ FieldValue(printed[n], 2) = event.kind
           /\ FieldValue(printed[n], 7) = ToString(event.event_index)
      ELSE /\ event.kind = "FillSummary"
           /\ printed[n] = fee_line(event)

\* A Fill, a Place and a FillSummary have each printed their line.
C9_Witness ==
    /\ Len(printed) = 3
    /\ {EventAt(printed_by[n]).kind : n \in DOMAIN printed}
         = {"Fill", "Place", "FillSummary"}

\* C10: no event of a market other than the active one prints anything,
\* whatever its kind, and the Fill, Place and Reduce events of the active
\* market print one line each, in the order of the input.
C10_OnlyActiveMarketPrints ==
    /\ \A n \in DOMAIN printed :
         EventAt(printed_by[n]).market = active_market_key
    /\ \A n \in DOMAIN printed : \A m \in DOMAIN printed :
         n < m => printed_by[n] < printed_by[m]
    /\ \A e \in 1..(ev - 1) :
         (EventAt(e).market = active_market_key
            /\ EventAt(e).kind \in {"Fill", "Place", "Reduce"})
         => Cardinality({n \in DOMAIN printed : printed_by[n] = e}) = 1
====
